---- MODULE Spec2Model ----
(***************************************************************************)
(* Model of the Visible MCP server (visible_server_node/src/server.ts):    *)
(* the catalog filter engine (matchesQuery, filterDevices, filterPlans)    *)
(* and the CallTool request handler that applies it to the catalogs        *)
(* loaded at start-up.                                                     *)
(*                                                                         *)
(* JavaScript strings whose characters the code inspects (toLowerCase,     *)
(* includes, split, replace) are sequences of one-character strings.       *)
(* Enumerated values and ids, which the code only compares with ===, are   *)
(* plain TLA+ strings.  A JavaScript object is a record whose DOMAIN holds *)
(* exactly the properties that are defined.                                *)
(***************************************************************************)
EXTENDS Naturals, Integers, Sequences, FiniteSets, TLC

-----------------------------------------------------------------------------
(* JavaScript string primitives                                            *)

UpperChars == <<"A","B","C","D","E","F","G","H","I","J","K","L","M",
                "N","O","P","Q","R","S","T","U","V","W","X","Y","Z">>

LowerChars == <<"a","b","c","d","e","f","g","h","i","j","k","l","m",
                "n","o","p","q","r","s","t","u","v","w","x","y","z">>

\* the characters matched by \s that occur in the model's inputs
WhitespaceChars == {" ", "\t"}

toLowerChar(c) ==
  IF \E i \in 1..Len(UpperChars) : UpperChars[i] = c
    THEN LowerChars[CHOOSE i \in 1..Len(UpperChars) : UpperChars[i] = c]
    ELSE c

\* String.prototype.toLowerCase
toLowerCase(s) == [i \in 1..Len(s) |-> toLowerChar(s[i])]

\* String.prototype.includes
includes(s, sub) ==
  \E i \in 0..(Len(s) - Len(sub)) :
    \A j \in 1..Len(sub) : s[i + j] = sub[j]

\* s.split(/\s+/): the pieces between maximal runs of whitespace; a leading
\* or trailing run leaves an empty first or last piece.
RECURSIVE splitFrom(_, _, _, _)
splitFrom(s, i, cur, inRun) ==
  IF i > Len(s) THEN <<cur>>
  ELSE IF s[i] \in WhitespaceChars
    THEN IF inRun THEN splitFrom(s, i + 1, cur, TRUE)
                  ELSE <<cur>> \o splitFrom(s, i + 1, <<>>, TRUE)
    ELSE splitFrom(s, i + 1, Append(cur, s[i]), FALSE)

splitWhitespace(s) == splitFrom(s, 1, <<>>, FALSE)

\* s.replace(/\s+/g, '')
stripWhitespace(s) == SelectSeq(s, LAMBDA c : c \notin WhitespaceChars)

\* parts.filter(Boolean).join(" ")
RECURSIVE joinNonEmpty(_)
joinNonEmpty(parts) ==
  IF parts = <<>> THEN <<>>
  ELSE LET rest == joinNonEmpty(Tail(parts))
       IN  IF Head(parts) = <<>> THEN rest
           ELSE IF rest = <<>> THEN Head(parts)
           ELSE Head(parts) \o <<" ">> \o rest

\* obj.field ?? dflt
Get(obj, field, dflt) == IF field \in DOMAIN obj THEN obj[field] ELSE dflt

\* the truthiness test `if (filters.field)` of an optional string
Given(filters, field) == field \in DOMAIN filters /\ filters[field] # <<>>

-----------------------------------------------------------------------------
(* String constants of server.ts                                           *)

productName_iphone == <<"i","p","h","o","n","e">>
productName_ipad == <<"i","p","a","d">>
productName_galaxy == <<"g","a","l","a","x","y">>
productName_pixel == <<"p","i","x","e","l">>
productName_watch == <<"w","a","t","c","h">>
productName_iwatch == <<"i","w","a","t","c","h">>
cat_mobile_phones == <<"m","o","b","i","l","e"," ","p","h","o","n","e","s">>
cat_tablets == <<"t","a","b","l","e","t","s">>
cat_wearables == <<"w","e","a","r","a","b","l","e","s">>
str_apple == <<"a","p","p","l","e">>
str_refurbished == <<"r","e","f","u","r","b","i","s","h","e","d">>
str_used == <<"u","s","e","d">>
str_annual == <<"a","n","n","u","a","l">>
str_6m == <<"6","m">>
str_6_m == <<"6"," ","m">>
str_6_ == <<"6"," ">>

\* Object.entries(productTypeMapping), in insertion order
productTypeMapping ==
  << [productName |-> productName_iphone, allowedCategories |-> <<cat_mobile_phones>>],
     [productName |-> productName_ipad,   allowedCategories |-> <<cat_mobile_phones, cat_tablets>>],
     [productName |-> productName_galaxy, allowedCategories |-> <<cat_mobile_phones>>],
     [productName |-> productName_pixel,  allowedCategories |-> <<cat_mobile_phones>>],
     [productName |-> productName_watch,  allowedCategories |-> <<cat_wearables>>],
     [productName |-> productName_iwatch, allowedCategories |-> <<cat_wearables>>] >>

-----------------------------------------------------------------------------
(* Prices and availability                                                 *)

\* the value JavaScript's null stands for in devicePrice / planPrice
NoPrice == -1

\* priceField?.value
priceValue(record, field) ==
  IF field \in DOMAIN record /\ "value" \in DOMAIN record[field]
    THEN record[field].value ELSE NoPrice

devicePrice_listFirst(device) ==
  IF priceValue(device, "price") # NoPrice
    THEN priceValue(device, "price")
    ELSE priceValue(device, "sale_price")

devicePrice(device) ==
  IF priceValue(device, "sale_price") # NoPrice
    THEN priceValue(device, "sale_price")
    ELSE priceValue(device, "price")

planPrice(plan) ==
  IF priceValue(plan, "sale_price") # NoPrice
    THEN priceValue(plan, "sale_price")
    ELSE priceValue(plan, "price")

inStock_anyQuantity(device) ==
  Get(device, "availability", "") = "in_stock"

inStock(device) ==
  /\ Get(device, "availability", "") = "in_stock"
  /\ Get(device, "inventory_quantity", 0) > 0

matchesAvailability_noGuard(device, filters) ==
  IF Get(filters, "availability", "") = "in_stock"
    THEN inStock(device) ELSE ~inStock(device)

matchesAvailability_unknownPasses(device, filters) ==
  IF "availability" \notin DOMAIN filters \/ filters.availability = ""
    THEN TRUE
    ELSE IF filters.availability = "in_stock" THEN inStock(device)
    ELSE IF filters.availability = "out_of_stock" THEN ~inStock(device)
    ELSE TRUE

matchesAvailability(device, filters) ==
  IF "availability" \notin DOMAIN filters \/ filters.availability = ""
    THEN TRUE
    ELSE IF filters.availability = "in_stock"
      THEN inStock(device) ELSE ~inStock(device)

-----------------------------------------------------------------------------
(* matchesQuery                                                            *)

firstProductType_lastInOrder(queryLower) ==
  IF \E k \in 1..Len(productTypeMapping) :
       includes(queryLower, productTypeMapping[k].productName)
    THEN CHOOSE k \in 1..Len(productTypeMapping) :
           /\ includes(queryLower, productTypeMapping[k].productName)
           /\ \A m \in (k + 1)..Len(productTypeMapping) :
                ~includes(queryLower, productTypeMapping[m].productName)
    ELSE 0

\* the first index of productTypeMapping whose name the query contains,
\* 0 when there is none (the for-loop returns in its first matching pass)
firstProductType(queryLower) ==
  IF \E k \in 1..Len(productTypeMapping) :
       includes(queryLower, productTypeMapping[k].productName)
    THEN CHOOSE k \in 1..Len(productTypeMapping) :
           /\ includes(queryLower, productTypeMapping[k].productName)
           /\ \A m \in 1..(k - 1) :
                ~includes(queryLower, productTypeMapping[m].productName)
    ELSE 0

\* allowedCategories.some(cat => productCategory.includes(cat))
categoryMatches(productCategory, allowedCategories) ==
  \E c \in 1..Len(allowedCategories) :
    includes(productCategory, allowedCategories[c])

\* words.every(word => text.includes(word))
everyWordIn(words, text) ==
  \A w \in 1..Len(words) : includes(text, words[w])

someWordIn(words, text) ==
  \E w \in 1..Len(words) : includes(text, words[w])

haystackOf(record) ==
  joinNonEmpty(<< toLowerCase(Get(record, "title", <<>>)),
                  toLowerCase(Get(record, "description", <<>>)),
                  toLowerCase(Get(record, "brand", <<>>)),
                  toLowerCase(Get(record, "product_category", <<>>)) >>)

\* body of the for-loop pass that found productTypeMapping[k] in the query
productTypeMatch_noGate(record, queryLower, k) ==
  LET title == toLowerCase(Get(record, "title", <<>>))
  IN  \/ includes(title, queryLower)
      \/ everyWordIn(splitWhitespace(queryLower), title)

productTypeMatch_someWord(record, queryLower, k) ==
  LET title == toLowerCase(Get(record, "title", <<>>))
      productCategory == toLowerCase(Get(record, "product_category", <<>>))
  IN  IF ~categoryMatches(productCategory, productTypeMapping[k].allowedCategories)
        THEN FALSE
        ELSE \/ includes(title, queryLower)
             \/ someWordIn(splitWhitespace(queryLower), title)

productTypeMatch_haystack(record, queryLower, k) ==
  LET productCategory == toLowerCase(Get(record, "product_category", <<>>))
  IN  IF ~categoryMatches(productCategory, productTypeMapping[k].allowedCategories)
        THEN FALSE
        ELSE \/ includes(haystackOf(record), queryLower)
             \/ everyWordIn(splitWhitespace(queryLower), haystackOf(record))

productTypeMatch(record, queryLower, k) ==
  LET title == toLowerCase(Get(record, "title", <<>>))
      productCategory == toLowerCase(Get(record, "product_category", <<>>))
  IN  IF ~categoryMatches(productCategory, productTypeMapping[k].allowedCategories)
        THEN FALSE
        ELSE \/ includes(title, queryLower)
             \/ everyWordIn(splitWhitespace(queryLower), title)

\* the general branch: every query word is found in the haystack
generalMatch_someWord(record, queryLower) ==
  LET queryWords == splitWhitespace(queryLower)
  IN  IF Len(queryWords) = 1
        THEN includes(haystackOf(record), queryWords[1])
        ELSE someWordIn(queryWords, haystackOf(record))

generalMatch(record, queryLower) ==
  LET queryWords == splitWhitespace(queryLower)
  IN  IF Len(queryWords) = 1
        THEN includes(haystackOf(record), queryWords[1])
        ELSE everyWordIn(queryWords, haystackOf(record))

matchesQuery(record, filters) ==
  IF ~Given(filters, "query") THEN TRUE
  ELSE LET queryLower == toLowerCase(filters.query)
           k == firstProductType(queryLower)
       IN  IF k # 0 THEN productTypeMatch(record, queryLower, k)
                    ELSE generalMatch(record, queryLower)

-----------------------------------------------------------------------------
(* filterDevices                                                           *)

\* lines 337-343: brand "apple" without a query leaves the wearables out
appleDefaultExcludes_anyQuery(device, filters) ==
  /\ Given(filters, "brand")
  /\ toLowerCase(filters.brand) = str_apple
  /\ includes(toLowerCase(Get(device, "product_category", <<>>)), cat_wearables)

appleDefaultExcludes(device, filters) ==
  /\ Given(filters, "brand")
  /\ toLowerCase(filters.brand) = str_apple
  /\ ~Given(filters, "query")
  /\ includes(toLowerCase(Get(device, "product_category", <<>>)), cat_wearables)

brandOk_substring(device, filters) ==
  Given(filters, "brand") =>
    includes(toLowerCase(Get(device, "brand", <<>>)), toLowerCase(filters.brand))

brandOk(device, filters) ==
  Given(filters, "brand") =>
    toLowerCase(Get(device, "brand", <<>>)) = toLowerCase(filters.brand)

productCategoryOk(device, filters) ==
  Given(filters, "productCategory") =>
    toLowerCase(Get(device, "product_category", <<>>))
      = toLowerCase(filters.productCategory)

colorOk(device, filters) ==
  Given(filters, "color") =>
    includes(toLowerCase(Get(device, "color", <<>>)), toLowerCase(filters.color))

sizeOk_asGiven(device, filters) ==
  Given(filters, "size") =>
    includes(toLowerCase(Get(device, "size", <<>>)), toLowerCase(filters.size))

sizeOk(device, filters) ==
  Given(filters, "size") =>
    LET deviceSize == toLowerCase(Get(device, "size", <<>>))
        filterSize == toLowerCase(filters.size)
    IN  \/ includes(deviceSize, stripWhitespace(filterSize))
        \/ includes(deviceSize, filterSize)

conditionOk_noSynonym(device, filters) ==
  Given(filters, "condition") =>
    includes(toLowerCase(Get(device, "condition", <<>>)),
             toLowerCase(filters.condition))

conditionOk(device, filters) ==
  Given(filters, "condition") =>
    LET deviceCondition == toLowerCase(Get(device, "condition", <<>>))
        lowered == toLowerCase(filters.condition)
        filterCondition == IF lowered = str_refurbished THEN str_used ELSE lowered
    IN  includes(deviceCondition, filterCondition)

\* price is the record's effective price, NoPrice for null
minPriceOk_strict(price, filters) ==
  "minPrice" \in DOMAIN filters =>
    (price # NoPrice /\ price > filters.minPrice)

minPriceOk_nullPasses(price, filters) ==
  "minPrice" \in DOMAIN filters =>
    (price = NoPrice \/ ~(price < filters.minPrice))

minPriceOk(price, filters) ==
  "minPrice" \in DOMAIN filters =>
    (price # NoPrice /\ ~(price < filters.minPrice))

maxPriceOk_minGuard(price, filters) ==
  "minPrice" \in DOMAIN filters =>
    (price # NoPrice /\ ~(price > Get(filters, "maxPrice", price)))

maxPriceOk(price, filters) ==
  "maxPrice" \in DOMAIN filters =>
    (price # NoPrice /\ ~(price > filters.maxPrice))

\* the callback of devices.filter, lines 334-414
deviceMatches(device, filters) ==
  /\ ~appleDefaultExcludes(device, filters)
  /\ brandOk(device, filters)
  /\ productCategoryOk(device, filters)
  /\ matchesAvailability(device, filters)
  /\ matchesQuery(device, filters)
  /\ colorOk(device, filters)
  /\ sizeOk(device, filters)
  /\ conditionOk(device, filters)
  /\ minPriceOk(devicePrice(device), filters)
  /\ maxPriceOk(devicePrice(device), filters)

RECURSIVE Reverse(_)
Reverse(s) == IF s = <<>> THEN <<>> ELSE Append(Reverse(Tail(s)), Head(s))

filterDevices_skipFirst(devices, filters) ==
  LET kept == SelectSeq(devices, LAMBDA device : deviceMatches(device, filters))
  IN  IF kept = <<>> THEN <<>> ELSE Tail(kept)

filterDevices_reversed(devices, filters) ==
  Reverse(SelectSeq(devices, LAMBDA device : deviceMatches(device, filters)))

filterDevices(devices, filters) ==
  SelectSeq(devices, LAMBDA device : deviceMatches(device, filters))

-----------------------------------------------------------------------------
(* filterPlans                                                             *)

planBillingTerm(plan) ==
  LET title == toLowerCase(Get(plan, "title", <<>>))
  IN  IF includes(title, str_annual) THEN "annual"
      ELSE IF \/ includes(title, str_6m)
              \/ includes(title, str_6_m)
              \/ includes(title, str_6_)
        THEN "multi-month"
        ELSE "monthly"

billingTermOk(plan, filters) ==
  ("billingTerm" \in DOMAIN filters /\ filters.billingTerm # "") =>
    planBillingTerm(plan) = filters.billingTerm

planMatches_withBrand(plan, filters) ==
  /\ matchesQuery(plan, filters)
  /\ brandOk(plan, filters)
  /\ minPriceOk(planPrice(plan), filters)
  /\ maxPriceOk(planPrice(plan), filters)
  /\ billingTermOk(plan, filters)

\* the callback of plans.filter, lines 431-459
planMatches(plan, filters) ==
  /\ matchesQuery(plan, filters)
  /\ minPriceOk(planPrice(plan), filters)
  /\ maxPriceOk(planPrice(plan), filters)
  /\ billingTermOk(plan, filters)

filterPlans(plans, filters) ==
  SelectSeq(plans, LAMBDA plan : planMatches(plan, filters))

-----------------------------------------------------------------------------
(* Inputs: catalog records and tool arguments                              *)

t_iPhone_14 == <<"i","P","h","o","n","e"," ","1","4">>
t_Apple_Watch == <<"A","p","p","l","e"," ","W","a","t","c","h"," ","S","e","r","i","e","s"," ","9">>
t_Galaxy == <<"S","a","m","s","u","n","g"," ","G","a","l","a","x","y"," ","S","2","4"," ","U","l","t","r","a">>
t_Band == <<"i","P","h","o","n","e"," ","W","a","t","c","h"," ","B","a","n","d">>
s_Apple == <<"A","p","p","l","e">>
s_APPLE == <<"A","P","P","L","E">>
s_Samsung == <<"S","a","m","s","u","n","g">>
s_Sam == <<"S","a","m">>
s_Mobile_Phones == <<"M","o","b","i","l","e"," ","P","h","o","n","e","s">>
s_mobile_phones == <<"m","o","b","i","l","e"," ","p","h","o","n","e","s">>
s_Mobile == <<"M","o","b","i","l","e">>
s_Wearables == <<"W","e","a","r","a","b","l","e","s">>
s_Accessories == <<"M","o","b","i","l","e"," ","P","h","o","n","e","s"," ","A","c","c","e","s","s","o","r","i","e","s">>
s_Black == <<"B","l","a","c","k">>
s_black == <<"b","l","a","c","k">>
s_Red == <<"R","e","d">>
s_128GB == <<"1","2","8","G","B">>
s_128_GB == <<"1","2","8"," ","G","B">>
s_128_gb == <<"1","2","8"," ","g","b">>
s_256_GB == <<"2","5","6"," ","G","B">>
s_256GB == <<"2","5","6","G","B">>
s_new == <<"n","e","w">>
s_used == <<"u","s","e","d">>
s_Used == <<"U","s","e","d">>
s_Refurbished == <<"R","e","f","u","r","b","i","s","h","e","d">>
d_black_phone == <<"B","l","a","c","k"," ","p","h","o","n","e">>
d_beats == <<"B","e","a","t","s"," ","i","P","h","o","n","e">>
t_Plan == <<"V","i","s","i","b","l","e"," ","P","l","a","n">>
t_Annual == <<"V","i","s","i","b","l","e","+"," ","A","n","n","u","a","l">>
t_6_Month == <<"V","i","s","i","b","l","e"," ","6"," ","M","o","n","t","h">>
t_6_Hyphen_Month == <<"V","i","s","i","b","l","e"," ","6","-","M","o","n","t","h">>
d_plan == <<"B","l","a","c","k"," ","F","r","i","d","a","y"," ","A","p","p","l","e"," ","d","e","a","l">>

q_iphone == <<"i","p","h","o","n","e">>
q_watch == <<"w","a","t","c","h">>
q_galaxy_ultra == <<"g","a","l","a","x","y"," ","u","l","t","r","a">>
q_galaxy_flip == <<"g","a","l","a","x","y"," ","f","l","i","p">>
q_watch_iphone == <<"w","a","t","c","h"," ","i","p","h","o","n","e">>
q_iwatch == <<"i","w","a","t","c","h">>
q_black_apple == <<"b","l","a","c","k"," ","a","p","p","l","e">>
q_apple_black == <<"A","p","p","l","e"," "," ","b","l","a","c","k">>

\* DeviceRecord values (lines 141-155); optional properties may be missing
DevicePool ==
  << [id |-> "d1", title |-> t_iPhone_14, description |-> d_black_phone,
      brand |-> s_Apple, product_category |-> s_Mobile_Phones,
      availability |-> "in_stock", inventory_quantity |-> 3,
      sale_price |-> [value |-> 50, currency |-> "USD"],
      color |-> s_Black, size |-> s_128GB, condition |-> s_new],
     [id |-> "d2", title |-> t_Apple_Watch,
      brand |-> s_Apple, product_category |-> s_Wearables,
      availability |-> "in_stock", inventory_quantity |-> 0,
      sale_price |-> [currency |-> "USD"],
      price |-> [value |-> 60, currency |-> "USD"],
      color |-> s_Red, condition |-> s_used],
     [id |-> "d3", title |-> t_Galaxy, description |-> d_beats,
      brand |-> s_Samsung, product_category |-> s_Mobile_Phones,
      availability |-> "out_of_stock", inventory_quantity |-> 2,
      color |-> s_Black, size |-> s_256_GB, condition |-> s_Used],
     [id |-> "d4", title |-> t_Galaxy,
      availability |-> "in_stock",
      sale_price |-> [value |-> 40, currency |-> "USD"],
      price |-> [value |-> 51, currency |-> "USD"],
      size |-> s_128_GB],
     [id |-> "d5", title |-> t_Band,
      brand |-> s_Apple, product_category |-> s_Accessories,
      availability |-> "in_stock", inventory_quantity |-> 1,
      price |-> [value |-> 0, currency |-> "USD"],
      color |-> s_Red, condition |-> s_new] >>

\* PlanRecord values (lines 157-165)
PlanPool ==
  << [id |-> "p1", title |-> t_Plan, description |-> d_plan,
      price |-> [value |-> 50, currency |-> "USD"]],
     [id |-> "p2", title |-> t_Annual,
      sale_price |-> [value |-> 40, currency |-> "USD"],
      price |-> [value |-> 51, currency |-> "USD"]],
     [id |-> "p3", title |-> t_6_Month, product_category |-> s_Wearables],
     [id |-> "p4", title |-> t_6_Hyphen_Month,
      price |-> [value |-> 40, currency |-> "USD"]] >>

\* longest catalog other than a whole pool
MaxCatalog == 2

\* most properties in the arguments of one tool call
MaxFields == 2

\* the MaxCatalog-or-shorter runs of consecutive pool records, the pool
\* taken as a ring, and the whole pool
RunsOf(pool) ==
  {<<>>, pool} \cup
  { [i \in 1..n |-> pool[((start + i - 2) % Len(pool)) + 1]] :
      start \in 1..Len(pool), n \in 1..MaxCatalog }

\* the pairs of catalogs a process may have loaded: one catalog ranges over
\* the runs while the other is its whole pool
CatalogLoads ==
  { <<d, PlanPool>> : d \in RunsOf(DevicePool) } \cup
  { <<DevicePool, p>> : p \in RunsOf(PlanPool) }

FieldNames ==
  { "category", "query", "brand", "productCategory", "minPrice", "maxPrice",
    "availability", "color", "size", "condition", "billingTerm" }

\* the values a caller may send for a property of the arguments
FieldValues(field) ==
  CASE field = "category"        -> { "devices", "plans", "stores" }
    [] field = "query"           -> { <<>>, q_iphone, q_watch, q_galaxy_ultra,
                                      q_galaxy_flip, q_watch_iphone, q_iwatch,
                                      q_black_apple, q_apple_black }
    [] field = "brand"           -> { s_Apple, s_APPLE, s_Sam }
    [] field = "productCategory" -> { s_mobile_phones, s_Mobile, s_Accessories }
    [] field = "minPrice"        -> { 0, 50, 51 }
    [] field = "maxPrice"        -> { 40, 50 }
    [] field = "availability"    -> { "in_stock", "out_of_stock", "sold_out" }
    [] field = "color"           -> { s_black, s_Red }
    [] field = "size"            -> { s_128_GB, s_128GB, s_128_gb, s_256GB }
    [] field = "condition"       -> { s_Refurbished, s_used, s_new }
    [] field = "billingTerm"     -> { "monthly", "annual", "multi-month", "weekly" }

RECURSIVE ObjectsOver(_)
ObjectsOver(fields) ==
  IF fields = {} THEN { <<>> }
  ELSE LET f == CHOOSE x \in fields : TRUE
       IN  { (f :> v) @@ rest : v \in FieldValues(f), rest \in ObjectsOver(fields \ {f}) }

\* request.params.arguments
ToolArguments ==
  UNION { ObjectsOver(fields) :
            fields \in { F \in SUBSET FieldNames : Cardinality(F) <= MaxFields } }

\* request.params.name
ToolNames == { "visible-plans", "visible-devices", "visible-stores" }

-----------------------------------------------------------------------------
(* The CallTool request handler                                            *)

VARIABLES devicesCatalog, plansCatalog, pc, request, response

\* the HTTP server: the session registry, the SSE transports and the Server
\* instances created so far, the exchange being answered, the disk
VARIABLES sessions, transports, servers, http, files

serverVars == <<sessions, transports, servers, http, files>>

\* a widget in its frame: its React state and polling timer, the globals the
\* host sets on window, and the last results array a message event delivered
VARIABLES widget, window, messageResults

widgetVars == <<widget, window, messageResults>>

vars ==
  <<devicesCatalog, plansCatalog, pc, request, response, serverVars, widgetVars>>

\* a value that is not an array (undefined), and an array
NotArray == [array |-> FALSE, items |-> <<>>]

Arr(items) == [array |-> TRUE, items |-> items]

\* no widget is mounted
NoWidget == [id |-> ""]

NoWindow == [injected |-> NotArray, toolOutput |-> NotArray]

widgetIdle ==
  /\ widget = NoWidget
  /\ window = NoWindow
  /\ messageResults = NotArray

\* new Map(): no session is registered
NoSessions == <<>>

\* no HTTP request is being answered
NoExchange == [method |-> "", path |-> ""]

\* the files of ROOT_DIR when nothing but the catalogs matters
NoFiles == {}

\* the HTTP side of a process that has served no request
serverIdle ==
  /\ sessions = NoSessions
  /\ transports = <<>>
  /\ servers = <<>>
  /\ http = NoExchange
  /\ files = NoFiles

NoRequest == [name |-> "", arguments |-> <<>>]
NoResponse == [kind |-> "none"]

\* widgetsById (lines 94-121)
widgetIds == { "visible-plans", "visible-devices" }

parses_noAvailability(arguments) ==
  /\ "category" \in DOMAIN arguments => arguments.category \in { "devices", "plans" }
  /\ "billingTerm" \in DOMAIN arguments =>
       arguments.billingTerm \in { "monthly", "annual", "multi-month" }

\* toolInputParser.parse succeeds (lines 237-249)
parses(arguments) ==
  /\ "category" \in DOMAIN arguments => arguments.category \in { "devices", "plans" }
  /\ "availability" \in DOMAIN arguments =>
       arguments.availability \in { "in_stock", "out_of_stock" }
  /\ "billingTerm" \in DOMAIN arguments =>
       arguments.billingTerm \in { "monthly", "annual", "multi-month" }

\* appliedFilters (lines 595-603): a property whose value is null is left out
appliedFilters(args) ==
  LET echoed == { "query", "brand", "productCategory", "minPrice", "maxPrice",
                  "availability", "billingTerm" } \cap DOMAIN args
  IN  [f \in echoed |-> args[f]]

callTool_devicesTotal(name, arguments, devices, plans) ==
  IF name \notin widgetIds THEN [kind |-> "error", message |-> "Unknown tool"]
  ELSE IF ~parses(arguments) THEN [kind |-> "error", message |-> "ZodError"]
  ELSE LET args == arguments
           resolvedCategory ==
             IF "category" \in DOMAIN args THEN args.category
             ELSE IF name = "visible-plans" THEN "plans" ELSE "devices"
           items == IF name = "visible-devices" THEN filterDevices(devices, args)
                                                ELSE filterPlans(plans, args)
       IN  [kind |-> "result",
            category |-> resolvedCategory,
            filters |-> appliedFilters(args),
            items |-> items,
            resultCount |-> Len(items),
            totalCount |-> Len(devices)]

\* the handler's outcome (lines 558-632)
callTool(name, arguments, devices, plans) ==
  IF name \notin widgetIds THEN [kind |-> "error", message |-> "Unknown tool"]
  ELSE IF ~parses(arguments) THEN [kind |-> "error", message |-> "ZodError"]
  ELSE LET args == arguments
           resolvedCategory ==
             IF "category" \in DOMAIN args THEN args.category
             ELSE IF name = "visible-plans" THEN "plans" ELSE "devices"
           items == IF name = "visible-devices" THEN filterDevices(devices, args)
                                                ELSE filterPlans(plans, args)
       IN  [kind |-> "result",
            category |-> resolvedCategory,
            filters |-> appliedFilters(args),
            items |-> items,
            resultCount |-> Len(items),
            totalCount |-> IF name = "visible-devices" THEN Len(devices)
                                                       ELSE Len(plans)]

Init ==
  /\ \E load \in CatalogLoads :
       /\ devicesCatalog = load[1]
       /\ plansCatalog = load[2]
  /\ pc = "idle"
  /\ request = NoRequest
  /\ response = NoResponse
  /\ serverIdle
  /\ widgetIdle

\* a CallTool request arrives and the handler answers it
CallTool ==
  /\ pc = "idle"
  /\ \E name \in ToolNames, arguments \in ToolArguments :
       /\ request' = [name |-> name, arguments |-> arguments]
       /\ response' = callTool(name, arguments, devicesCatalog, plansCatalog)
  /\ pc' = "responded"
  /\ UNCHANGED <<widgetVars, devicesCatalog, plansCatalog, serverVars>>

\* the response has been sent; the server waits for the next request
Respond ==
  /\ pc = "responded"
  /\ pc' = "idle"
  /\ request' = NoRequest
  /\ response' = NoResponse
  /\ UNCHANGED <<widgetVars, devicesCatalog, plansCatalog, serverVars>>

Next == CallTool \/ Respond

Spec == Init /\ [][Next]_vars

-----------------------------------------------------------------------------
(* The filter functions applied on their own                               *)

\* the filters a caller of filterDevices or filterPlans may pass: the
\* functions take the properties as they are, without the parser's checks
FilterObjects == { a \in ToolArguments : "category" \notin DOMAIN a }

\* filterDevices(devicesCatalog, filters) is called and returns
FilterDevicesCall ==
  /\ pc = "idle"
  /\ \E filters \in FilterObjects :
       /\ request' = [name |-> "filterDevices", arguments |-> filters]
       /\ response' = [kind |-> "returned",
                       items |-> filterDevices(devicesCatalog, filters)]
  /\ pc' = "responded"
  /\ UNCHANGED <<widgetVars, devicesCatalog, plansCatalog, serverVars>>

\* filterPlans(plansCatalog, filters) is called and returns
FilterPlansCall ==
  /\ pc = "idle"
  /\ \E filters \in FilterObjects :
       /\ request' = [name |-> "filterPlans", arguments |-> filters]
       /\ response' = [kind |-> "returned",
                       items |-> filterPlans(plansCatalog, filters)]
  /\ pc' = "responded"
  /\ UNCHANGED <<widgetVars, devicesCatalog, plansCatalog, serverVars>>

EngineNext == FilterDevicesCall \/ FilterPlansCall \/ Respond

EngineSpec == Init /\ [][EngineNext]_vars

-----------------------------------------------------------------------------
(* The HTTP server: SSE sessions and POSTed messages                       *)

\* most SSE connections opened in one run
MaxSessions == 2

ssePath == "/mcp"

postPath == "/mcp/messages"

\* transport.sessionId of the n-th transport created: a fresh identifier
sessionIdOf(n) == <<"s1", "s2", "s3", "s4">>[n]

\* url.searchParams.get("sessionId") of a URL without the parameter: null
NoSessionId == "<null>"

\* the sessionId parameters a POST may carry: none, the empty text, an
\* identifier no transport ever had, and the identifiers of the transports
PostSessionIds ==
  { NoSessionId, "", "s9" } \cup { sessionIdOf(n) : n \in 1..MaxSessions }

\* the tools/call messages a client POSTs
PostedCalls ==
  { [name |-> "visible-devices", arguments |-> [query |-> q_iphone]],
    [name |-> "visible-devices", arguments |-> [brand |-> s_Apple]],
    [name |-> "visible-plans", arguments |-> [maxPrice |-> 40]] }

\* nothing was sent over a session's stream yet
NoAnswer == [request |-> NoRequest, response |-> NoResponse]

\* sessions.set(sessionId, record)
sessionsSet(registry, sessionId, record) ==
  [id \in DOMAIN registry \cup {sessionId} |->
     IF id = sessionId THEN record ELSE registry[id]]

sessionsDelete_keepsEntry(registry, sessionId) == registry

\* sessions.delete(sessionId)
sessionsDelete(registry, sessionId) ==
  [id \in DOMAIN registry \ {sessionId} |-> registry[id]]

postRoute_firstSession(sessionId, registry) ==
  IF sessionId = NoSessionId \/ sessionId = ""
    THEN [status |-> 400, transport |-> 0]
  ELSE IF DOMAIN registry = {}
    THEN [status |-> 404, transport |-> 0]
  ELSE [status |-> 0,
        transport |-> registry[CHOOSE id \in DOMAIN registry : TRUE].transport]

\* handlePostMessage up to the hand-over (lines 683-695): the status it
\* answers by itself, or the transport of the session it found (0 for none)
postRoute(sessionId, registry) ==
  IF sessionId = NoSessionId \/ sessionId = ""
    THEN [status |-> 400, transport |-> 0]
  ELSE IF sessionId \notin DOMAIN registry
    THEN [status |-> 404, transport |-> 0]
  ELSE [status |-> 0, transport |-> registry[sessionId].transport]

arrayAfterFilter_reversedInPlace(array) == Reverse(array)

\* Array.prototype.filter returns a new array: the catalog array the handler
\* filtered is afterwards what it was
arrayAfterFilter(array) == array

\* GET /mcp: handleSseRequest up to its await (lines 648-666): a Server and a
\* transport are created and registered under the transport's sessionId
handleSseRequest ==
  /\ Len(transports) < MaxSessions
  /\ LET n == Len(transports) + 1
     IN  /\ transports' = Append(transports,
                                 [sessionId |-> sessionIdOf(n),
                                  state |-> "connecting"])
         /\ servers' = Append(servers, [sent |-> NoAnswer, closed |-> FALSE])
         /\ sessions' = sessionsSet(sessions, sessionIdOf(n),
                                    [server |-> n, transport |-> n])
  /\ UNCHANGED <<widgetVars, devicesCatalog, plansCatalog, pc, request, response, http, files>>

\* await server.connect(transport) resolves: the stream is open
connectResolves ==
  /\ \E n \in 1..Len(transports) :
       /\ transports[n].state = "connecting"
       /\ transports' = [transports EXCEPT ![n].state = "open"]
  /\ UNCHANGED <<widgetVars, devicesCatalog, plansCatalog, pc, request, response,
                 sessions, servers, http, files>>

\* await server.connect(transport) rejects: the catch block (lines 667-673)
connectRejects ==
  /\ http = NoExchange
  /\ \E n \in 1..Len(transports), headersSent \in BOOLEAN :
       /\ transports[n].state = "connecting"
       /\ transports' = [transports EXCEPT ![n].state = "failed"]
       /\ sessions' = sessionsDelete(sessions, transports[n].sessionId)
       /\ http' = IF headersSent THEN http
                  ELSE [method |-> "GET", path |-> ssePath,
                        sessionId |-> transports[n].sessionId,
                        status |-> 500, transport |-> n]
  /\ UNCHANGED <<widgetVars, devicesCatalog, plansCatalog, pc, request, response,
                 servers, files>>

\* the transport closes: transport.onclose (lines 656-659)
transportOnclose ==
  /\ \E n \in 1..Len(transports) :
       /\ transports[n].state \in { "connecting", "open" }
       /\ transports' = [transports EXCEPT ![n].state = "closed"]
       /\ sessions' = sessionsDelete(sessions, transports[n].sessionId)
       /\ servers' = [servers EXCEPT ![n].closed = TRUE]
  /\ UNCHANGED <<widgetVars, devicesCatalog, plansCatalog, pc, request, response, http, files>>

\* POST /mcp/messages: handlePostMessage (lines 676-705). A message handed
\* to an open transport reaches the CallTool handler of the session's Server,
\* which runs without an await and sends its answer over the stream; a
\* transport whose stream is not open rejects the request.
handlePostMessage ==
  /\ http = NoExchange
  /\ \E sessionId \in PostSessionIds, call \in PostedCalls :
       LET route == postRoute(sessionId, sessions)
           n == route.transport
           exchange(status) ==
             [method |-> "POST", path |-> postPath, sessionId |-> sessionId,
              status |-> status, transport |-> n]
       IN  IF n = 0
             THEN /\ http' = exchange(route.status)
                  /\ UNCHANGED <<widgetVars, servers, devicesCatalog, plansCatalog>>
           ELSE IF transports[n].state = "open"
             THEN /\ http' = exchange(202)
                  /\ servers' =
                       [servers EXCEPT ![n].sent =
                          [request |-> call,
                           response |-> callTool(call.name, call.arguments,
                                                 devicesCatalog, plansCatalog)]]
                  /\ devicesCatalog' =
                       IF call.name = "visible-devices"
                         THEN arrayAfterFilter(devicesCatalog) ELSE devicesCatalog
                  /\ plansCatalog' =
                       IF call.name = "visible-plans"
                         THEN arrayAfterFilter(plansCatalog) ELSE plansCatalog
           ELSE /\ http' = exchange(500)
                /\ UNCHANGED <<widgetVars, servers, devicesCatalog, plansCatalog>>
  /\ UNCHANGED <<widgetVars, pc, request, response, sessions, transports, files>>

\* the response was written and ended; the next request can be answered
endExchange ==
  /\ http # NoExchange
  /\ http' = NoExchange
  /\ UNCHANGED <<widgetVars, devicesCatalog, plansCatalog, pc, request, response,
                 sessions, transports, servers, files>>

\* the process has loaded both catalog files and listens
ServerInit ==
  /\ devicesCatalog = DevicePool
  /\ plansCatalog = PlanPool
  /\ pc = "idle"
  /\ request = NoRequest
  /\ response = NoResponse
  /\ serverIdle
  /\ widgetIdle

ServerNext ==
  \/ handleSseRequest
  \/ connectResolves
  \/ connectRejects
  \/ transportOnclose
  \/ handlePostMessage
  \/ endExchange

ServerSpec == ServerInit /\ [][ServerNext]_vars

-----------------------------------------------------------------------------
(* The HTTP server: static assets                                          *)

ROOT_DIR == <<"/","s","r","v">>

\* path.resolve(ROOT_DIR, "assets")
ASSETS_DIR == <<"/","s","r","v","/","a","s","s","e","t","s">>

str_assets_prefix == <<"/","a","s","s","e","t","s","/">>
str_health == <<"/","h","e","a","l","t","h">>

\* String.prototype.startsWith
startsWith(text, prefix) ==
  /\ Len(prefix) <= Len(text)
  /\ SubSeq(text, 1, Len(prefix)) = prefix

\* text.split("/")
RECURSIVE splitSlashFrom(_, _, _)
splitSlashFrom(text, i, current) ==
  IF i > Len(text) THEN <<current>>
  ELSE IF text[i] = "/"
    THEN <<current>> \o splitSlashFrom(text, i + 1, <<>>)
    ELSE splitSlashFrom(text, i + 1, Append(current, text[i]))

splitSlash(text) == splitSlashFrom(text, 1, <<>>)

\* "/" before each segment
RECURSIVE joinSlash(_)
joinSlash(segments) ==
  IF segments = <<>> THEN <<>>
  ELSE <<"/">> \o Head(segments) \o joinSlash(Tail(segments))

\* the URL parser's single-dot and double-dot path segments
IsSingleDot(segment) ==
  toLowerCase(segment) \in { <<".">>, <<"%","2","e">> }

IsDoubleDot(segment) ==
  toLowerCase(segment) \in { <<".",".">>, <<".","%","2","e">>,
                             <<"%","2","e",".">>, <<"%","2","e","%","2","e">> }

\* the URL parser's path state: dot segments are resolved, nothing is decoded
RECURSIVE urlPath(_, _)
urlPath(segments, path) ==
  IF segments = <<>> THEN path
  ELSE LET segment == Head(segments)
           last == Len(segments) = 1
           closing == IF last THEN << <<>> >> ELSE <<>>
       IN  IF IsDoubleDot(segment)
             THEN urlPath(Tail(segments),
                          (IF path = <<>> THEN path
                           ELSE SubSeq(path, 1, Len(path) - 1)) \o closing)
           ELSE IF IsSingleDot(segment)
             THEN urlPath(Tail(segments), path \o closing)
           ELSE urlPath(Tail(segments), Append(path, segment))

\* new URL(req.url, base).pathname of a request target that starts with "/"
urlPathname(target) == joinSlash(urlPath(Tail(splitSlash(target)), <<>>))

\* path.normalize over the segments of an absolute path: empty and "."
\* segments are dropped, ".." drops the segment before it
RECURSIVE resolveDots(_, _)
resolveDots(segments, kept) ==
  IF segments = <<>> THEN kept
  ELSE LET segment == Head(segments)
       IN  IF segment = <<>> \/ segment = <<".">>
             THEN resolveDots(Tail(segments), kept)
           ELSE IF segment = <<".",".">>
             THEN resolveDots(Tail(segments),
                              IF kept = <<>> THEN kept
                              ELSE SubSeq(kept, 1, Len(kept) - 1))
           ELSE resolveDots(Tail(segments), Append(kept, segment))

\* path.normalize of an absolute POSIX path; a trailing slash is kept
pathNormalize(text) ==
  LET kept == resolveDots(splitSlash(text), <<>>)
  IN  IF kept = <<>> THEN <<"/">>
      ELSE joinSlash(kept) \o (IF text[Len(text)] = "/" THEN <<"/">> ELSE <<>>)

\* path.join(a, b)
pathJoin(a, b) == pathNormalize(a \o <<"/">> \o b)

\* fs.existsSync: a file or a directory of that name; with a trailing slash,
\* a directory only
existsSync(disk, path) ==
  IF path[Len(path)] = "/" /\ Len(path) > 1
    THEN \E f \in disk : f.path = SubSeq(path, 1, Len(path) - 1) /\ f.kind = "dir"
    ELSE \E f \in disk : f.path = path

\* the request targets of the GET requests
GetTargets ==
  { <<"/","a","s","s","e","t","s","/","a","p","p",".","j","s">>,
    <<"/","a","s","s","e","t","s","/","s","u","b">>,
    <<"/","a","s","s","e","t","s","/">>,
    <<"/","a","s","s","e","t","s","/",".",".","/","s","e","r","v","e","r",".","t","s">>,
    <<"/","a","s","s","e","t","s","/","%","2","e","%","2","e","/","s","e","r","v","e","r",".","t","s">>,
    <<"/","a","s","s","e","t","s","/","m","i","s","s","i","n","g",".","j","s">>,
    <<"/","a","s","s","e","t","s","/","/","a","p","p",".","j","s">>,
    <<"/","a","s","s","e","t","s","/","a","p","p",".","j","s","/">>,
    <<"/","a","s","s","e","t","s","-","o","l","d","/","x",".","j","s">>,
    <<"/","s","e","r","v","e","r",".","t","s">>,
    str_health }

\* what may lie under ROOT_DIR besides the assets directory itself
OptionalFiles ==
  { { [path |-> <<"/","s","r","v","/","a","s","s","e","t","s","/","a","p","p",".","j","s">>,
       kind |-> "file"] },
    { [path |-> <<"/","s","r","v","/","a","s","s","e","t","s","/","s","u","b">>,
       kind |-> "dir"] },
    { [path |-> <<"/","s","r","v","/","s","e","r","v","e","r",".","t","s">>,
       kind |-> "file"] },
    { [path |-> <<"/","s","r","v","/","a","s","s","e","t","s","-","o","l","d">>,
       kind |-> "dir"],
      [path |-> <<"/","s","r","v","/","a","s","s","e","t","s","-","o","l","d","/","x",".","j","s">>,
       kind |-> "file"] } }

\* the disks a process may run on: the assets directory exists (the start-up
\* check of readWidgetHtml), anything else may or may not
Disks ==
  { { [path |-> ROOT_DIR, kind |-> "dir"], [path |-> ASSETS_DIR, kind |-> "dir"] }
      \cup UNION chosen : chosen \in SUBSET OptionalFiles }

\* a GET request other than the SSE stream (lines 742-785): the health
\* check, a static asset, or nothing
handleGet ==
  /\ http = NoExchange
  /\ \E target \in GetTargets :
       LET pathname == urlPathname(target)
           answer(status, served) ==
             [method |-> "GET", path |-> target, status |-> status,
              served |-> served]
       IN  http' =
             IF pathname = str_health THEN answer(200, <<>>)
             ELSE IF startsWith(pathname, str_assets_prefix)
               THEN LET filePath == pathJoin(ROOT_DIR, pathname)
                        normalizedPath == pathNormalize(filePath)
                    IN  IF ~startsWith(normalizedPath, ASSETS_DIR)
                          THEN answer(403, <<>>)
                        ELSE IF ~existsSync(files, normalizedPath)
                          THEN answer(404, <<>>)
                        ELSE answer(200, normalizedPath)
             ELSE answer(404, <<>>)
  /\ UNCHANGED <<widgetVars, devicesCatalog, plansCatalog, pc, request, response,
                 sessions, transports, servers, files>>

\* the process listens, with some disk under it
AssetInit ==
  /\ devicesCatalog = DevicePool
  /\ plansCatalog = PlanPool
  /\ pc = "idle"
  /\ request = NoRequest
  /\ response = NoResponse
  /\ sessions = NoSessions
  /\ transports = <<>>
  /\ servers = <<>>
  /\ http = NoExchange
  /\ files \in Disks
  /\ widgetIdle

AssetNext == handleGet \/ endExchange

AssetSpec == AssetInit /\ [][AssetNext]_vars

-----------------------------------------------------------------------------
(* The widgets                                                             *)

\* the server process, which a widget's frame does not touch
processVars == <<devicesCatalog, plansCatalog, pc, request, response, serverVars>>

\* filter-devices and filter-plans render at most this many cards
MAX_RESULTS == 6

\* visible-devices renders allItems.slice(0, 10)
VISIBLE_DEVICES_LIMIT == 10

\* the polling timer gives up after this many ticks
maxAttempts == 25

str_year == <<"y","e","a","r">>
str_6 == <<"6">>
str_month == <<"m","o","n","t","h">>
str_monthly == <<"m","o","n","t","h","l","y">>

slice_whole(array, start, end) == array

\* Array.prototype.slice(start, end) with 0 <= start <= end
slice(array, start, end) ==
  SubSeq(array, start + 1, IF end < Len(array) THEN end ELSE Len(array))

\* normalizePlanTerm of filter-plans; "" stands for null
normalizePlanTerm(value) ==
  IF value = <<>> THEN ""
  ELSE LET text == toLowerCase(value)
       IN  IF includes(text, str_annual) \/ includes(text, str_year) THEN "annual"
           ELSE IF includes(text, str_6) /\ includes(text, str_month) THEN "6-month"
           ELSE IF includes(text, str_monthly) \/ includes(text, str_month)
             THEN "monthly"
           ELSE ""

\* a || b over terms
orTerm(a, b) == IF a # "" THEN a ELSE b

\* effectiveTerm of FilteredPlansApp
effectiveTerm(filters) ==
  orTerm(normalizePlanTerm(Get(filters, "term", <<>>)),
         normalizePlanTerm(Get(filters, "query", <<>>)))

\* plansToRender of FilteredPlansApp
plansToRender(plans, filters) ==
  IF effectiveTerm(filters) = "" THEN plans
  ELSE LET keeps(plan) ==
             orTerm(normalizePlanTerm(Get(plan, "title", <<>>)),
                    normalizePlanTerm(Get(plan, "description", <<>>)))
               = effectiveTerm(filters)
       IN  SelectSeq(plans, keeps)

\* areFiltersActive of filter-devices
areFiltersActive(filters) ==
  \E f \in { "brand", "max_price", "condition", "color", "size", "query", "in_stock" } :
    Given(filters, f)

\* devicesToRender of FilteredDevicesApp, nothing when showEmptyFiltered
devicesToRender(filteredDevices, allDevices, filters) ==
  IF filteredDevices # <<>> THEN filteredDevices
  ELSE IF areFiltersActive(filters) THEN <<>>
  ELSE allDevices

\* the cards a widget renders
displayed(w, win) ==
  IF w.id = "visible-devices"
    THEN slice(win.toolOutput.items, 0, VISIBLE_DEVICES_LIMIT)
  ELSE IF w.id = "filter-devices"
    THEN slice(devicesToRender(w.results, w.allDevices, w.filters), 0, MAX_RESULTS)
  ELSE slice(plansToRender(w.results, w.filters), 0, MAX_RESULTS)

\* the array the polling timer looks for: window.__VISIBLE_FILTER_RESULTS__
\* when it is an array, else the results of window.openai.toolOutput
candidate(win) == IF win.injected.array THEN win.injected ELSE win.toolOutput

\* a device as a tool result carries it, the n-th of a list
widgetDevice(n) ==
  [id |-> n, title |-> t_iPhone_14, product_category |-> s_Mobile_Phones]

devicesOf(n) == [i \in 1..n |-> widgetDevice(i)]

\* plans.json of the plans widget, the list it falls back to
plansFallback == PlanPool

widgetNames == { "visible-devices", "filter-devices", "filter-plans" }

\* the arrays a host hands to a widget: a short one and one longer than the
\* widget's cap
arraysFor(id) ==
  IF id = "visible-devices"
    THEN { devicesOf(2), devicesOf(VISIBLE_DEVICES_LIMIT + 1) }
  ELSE IF id = "filter-devices"
    THEN { devicesOf(2), devicesOf(MAX_RESULTS + 1) }
  ELSE { PlanPool, PlanPool \o SubSeq(PlanPool, 1, MAX_RESULTS + 1 - Len(PlanPool)) }

maybeArrays(id) == { NotArray, Arr(<<>>) } \cup { Arr(a) : a \in arraysFor(id) }

\* the filters a message carries
widgetFilters ==
  { <<>>, [query |-> str_annual], [term |-> <<"6","-","m","o","n","t","h">>],
    [brand |-> s_Apple] }

\* the state of a widget after its first render and its mount effects
mounted(id, win) ==
  LET found == candidate(win).array /\ candidate(win).items # <<>>
      initial == IF win.injected.array THEN win.injected.items
                 ELSE IF win.toolOutput.array THEN win.toolOutput.items
                 ELSE IF id = "filter-plans" THEN plansFallback
                 ELSE <<>>
  IN  IF id = "visible-devices"
        THEN [id |-> id, results |-> <<>>, allDevices |-> <<>>, filters |-> <<>>,
              attempts |-> 0, timer |-> FALSE]
      ELSE IF id = "filter-plans"
        THEN [id |-> id,
              results |-> IF found THEN candidate(win).items ELSE initial,
              allDevices |-> <<>>, filters |-> <<>>,
              attempts |-> 0, timer |-> ~found]
      ELSE [id |-> id, results |-> initial, allDevices |-> <<>>, filters |-> <<>>,
            attempts |-> 0, timer |-> TRUE]

\* the host sets window.__VISIBLE_FILTER_RESULTS__ or window.openai.toolOutput
hostSetsGlobals ==
  /\ \E injected \in maybeArrays(widget.id), toolOutput \in maybeArrays(widget.id) :
       /\ (injected = window.injected) # (toolOutput = window.toolOutput)
       /\ window' = [injected |-> injected, toolOutput |-> toolOutput]
  /\ UNCHANGED <<widget, messageResults, processVars>>

\* a message event reaches the handler of a filter widget
messageHandler ==
  /\ widget.id \in { "filter-devices", "filter-plans" }
  /\ \E resultsArray \in maybeArrays(widget.id), nextFilters \in widgetFilters,
        unfiltered \in { NotArray, Arr(devicesOf(1)) } :
       /\ widget' =
            [widget EXCEPT
               !.allDevices = IF widget.id = "filter-devices" /\ unfiltered.array
                                THEN unfiltered.items ELSE @,
               !.results = IF resultsArray.array THEN resultsArray.items ELSE @,
               !.filters = IF resultsArray.array THEN nextFilters ELSE @]
       /\ messageResults' = IF resultsArray.array THEN resultsArray ELSE messageResults
  /\ UNCHANGED <<window, processVars>>

\* the 200 ms interval of a filter widget fires
timerTick ==
  /\ widget.id \in { "filter-devices", "filter-plans" }
  /\ widget.timer
  /\ LET found == candidate(window).array /\ candidate(window).items # <<>>
     IN  widget' =
           [widget EXCEPT
              !.attempts = @ + 1,
              !.results = IF found THEN candidate(window).items ELSE @,
              !.timer = ~(found \/ widget.attempts + 1 >= maxAttempts)]
  /\ UNCHANGED <<window, messageResults, processVars>>

\* a widget is mounted in a frame whose globals the host may have set
WidgetInit ==
  /\ devicesCatalog = DevicePool
  /\ plansCatalog = PlanPool
  /\ pc = "idle"
  /\ request = NoRequest
  /\ response = NoResponse
  /\ serverIdle
  /\ \E id \in widgetNames :
       \E injected \in maybeArrays(id), toolOutput \in maybeArrays(id) :
         /\ window = [injected |-> injected, toolOutput |-> toolOutput]
         /\ widget = mounted(id, window)
  /\ messageResults = NotArray

WidgetNext == hostSetsGlobals \/ messageHandler \/ timerTick

WidgetSpec == WidgetInit /\ [][WidgetNext]_vars

-----------------------------------------------------------------------------
(* Vocabulary of the properties                                            *)

\* the handler has answered a visible-devices (visible-plans) call with a result
DeviceResult ==
  pc = "responded" /\ response.kind = "result" /\ request.name = "visible-devices"

PlanResult ==
  pc = "responded" /\ response.kind = "result" /\ request.name = "visible-plans"

\* the catalog the answered call filtered
FilteredCatalog ==
  IF request.name = "visible-devices" THEN devicesCatalog ELSE plansCatalog

Returned(record) == \E i \in 1..Len(response.items) : response.items[i] = record

InCatalog(catalog) == { catalog[i] : i \in 1..Len(catalog) }

\* the filter properties of the arguments (category only selects a catalog)
FilterFields(arguments) == DOMAIN arguments \ { "category" }

\* sale price if present, else list price; -1 when the record has neither
EffectivePrice(record) ==
  IF "sale_price" \in DOMAIN record /\ "value" \in DOMAIN record.sale_price
    THEN record.sale_price.value
  ELSE IF "price" \in DOMAIN record /\ "value" \in DOMAIN record.price
    THEN record.price.value
  ELSE -1

LowerOf(record, field) ==
  toLowerCase(IF field \in DOMAIN record THEN record[field] ELSE <<>>)

\* the mapped product names the lowercased query contains, as indices
TokensIn(queryLower) ==
  { k \in 1..Len(productTypeMapping) :
      includes(queryLower, productTypeMapping[k].productName) }

\* the category of the record contains an allowed category of token k
CategoryAllowed(record, k) ==
  \E c \in 1..Len(productTypeMapping[k].allowedCategories) :
    includes(LowerOf(record, "product_category"),
             productTypeMapping[k].allowedCategories[c])

-----------------------------------------------------------------------------
\* C1: filtering a result again with the same query changes nothing:
\* filterDevices(filterDevices(catalog, Q), Q) = filterDevices(catalog, Q),
\* and the same for filterPlans.
Thm_C1_Idempotent ==
  /\ DeviceResult =>
       filterDevices(response.items, request.arguments) = response.items
  /\ PlanResult =>
       filterPlans(response.items, request.arguments) = response.items

\* a device call that kept two or more records and dropped at least one
Wit_C1 ==
  /\ DeviceResult
  /\ Len(response.items) >= 2
  /\ Len(response.items) < Len(devicesCatalog)

\* C2: the result is a subsequence of the catalog: only catalog records,
\* each at most once, in the catalog's relative order.
Thm_C2_Subsequence ==
  (DeviceResult \/ PlanResult) =>
    \E pos \in [1..Len(response.items) -> 1..Len(FilteredCatalog)] :
      /\ \A i \in 1..Len(response.items) : FilteredCatalog[pos[i]] = response.items[i]
      /\ \A i, j \in 1..Len(response.items) : i < j => pos[i] < pos[j]

\* a result of two or more records that skips a record between two it keeps
Wit_C2 ==
  /\ DeviceResult
  /\ Len(response.items) >= 2
  /\ \E i, j, k \in 1..Len(devicesCatalog) :
       /\ i < j /\ j < k
       /\ Returned(devicesCatalog[i])
       /\ ~Returned(devicesCatalog[j])
       /\ Returned(devicesCatalog[k])

\* C3: a query with no filter field set returns the whole catalog, in order.
Thm_C3_VacuousQuery ==
  ((DeviceResult \/ PlanResult) /\ FilterFields(request.arguments) = {}) =>
    response.items = FilteredCatalog

Wit_C3 ==
  /\ DeviceResult
  /\ request.arguments = <<>>
  /\ Len(response.items) >= 2

\* the query that has only property f of the arguments
OnlyField(arguments, f) == (f :> arguments[f])

\* the record passes every present property of the arguments taken on its own
PassesEachField(record, arguments) ==
  \A f \in FilterFields(arguments) :
    IF request.name = "visible-devices"
      THEN deviceMatches(record, OnlyField(arguments, f))
      ELSE planMatches(record, OnlyField(arguments, f))

\* brand "apple" (in any case) together with a non-empty free-text query
AppleWithQuery(arguments) ==
  /\ "brand" \in DOMAIN arguments
  /\ toLowerCase(arguments.brand) = str_apple
  /\ "query" \in DOMAIN arguments
  /\ arguments.query # <<>>

\* C4 as claimed: the result is exactly the records that pass each present
\* field taken on its own, so that adding a field never adds a record.
Orig_C4_IndependentFields ==
  (DeviceResult \/ PlanResult) =>
    response.items =
      SelectSeq(FilteredCatalog,
                LAMBDA record : PassesEachField(record, request.arguments))

\* C4 amended: the result is exactly the records that pass each present field
\* taken on its own, unless the query combines brand "apple" with a free-text
\* query; then the wearables exclusion that brand alone applies is lifted,
\* and the result is the records whose brand equals the filter and that pass
\* each other present field on its own.
Thm_C4_IndependentFields ==
  (DeviceResult \/ PlanResult) =>
    response.items =
      SelectSeq(FilteredCatalog,
        LAMBDA record :
          IF request.name = "visible-devices" /\ AppleWithQuery(request.arguments)
            THEN /\ LowerOf(record, "brand") = toLowerCase(request.arguments.brand)
                 /\ \A f \in FilterFields(request.arguments) \ { "brand" } :
                      deviceMatches(record, OnlyField(request.arguments, f))
            ELSE PassesEachField(record, request.arguments))

\* a device call with two filter fields, each of which alone keeps a record
\* that the two together drop
Wit_C4 ==
  /\ DeviceResult
  /\ Cardinality(FilterFields(request.arguments)) = 2
  /\ ~AppleWithQuery(request.arguments)
  /\ response.items # <<>>
  /\ \A f \in FilterFields(request.arguments) :
       \E i \in 1..Len(devicesCatalog) :
         /\ deviceMatches(devicesCatalog[i], OnlyField(request.arguments, f))
         /\ ~Returned(devicesCatalog[i])

\* the catalog of the claim's example: a "Mobile Phones" record titled
\* "iPhone 14" followed by a "Wearables" record titled "Apple Watch Series 9"
ExampleCatalog ==
  /\ Len(devicesCatalog) = 2
  /\ devicesCatalog[1].title = t_iPhone_14
  /\ devicesCatalog[1].product_category = s_Mobile_Phones
  /\ devicesCatalog[2].title = t_Apple_Watch
  /\ devicesCatalog[2].product_category = s_Wearables

\* the free-text query is the only filter property of the answered call
OnlyQuery(q) ==
  /\ FilterFields(request.arguments) = { "query" }
  /\ request.arguments.query = q

\* C5 as claimed: when the query contains a mapped product name, every
\* returned record has a category containing an allowed category of that
\* name, for each mapped name the query contains.
Orig_C5_CategoryExclusivity ==
  ((DeviceResult \/ PlanResult) /\ Given(request.arguments, "query")) =>
    \A k \in TokensIn(toLowerCase(request.arguments.query)) :
      \A i \in 1..Len(response.items) : CategoryAllowed(response.items[i], k)

\* C5 amended: when the query contains a mapped product name, every returned
\* record has a category containing an allowed category of the first name in
\* mapping order (iphone, ipad, galaxy, pixel, watch, iwatch) that the query
\* contains; over the example catalog "iphone" returns only the iPhone 14 and
\* "watch" only the Apple Watch Series 9.
Thm_C5_CategoryExclusivity ==
  /\ ((DeviceResult \/ PlanResult) /\ Given(request.arguments, "query")) =>
       \A k \in TokensIn(toLowerCase(request.arguments.query)) :
         (\A m \in TokensIn(toLowerCase(request.arguments.query)) : k <= m) =>
           \A i \in 1..Len(response.items) : CategoryAllowed(response.items[i], k)
  /\ (DeviceResult /\ ExampleCatalog /\ OnlyQuery(q_iphone)) =>
       response.items = <<devicesCatalog[1]>>
  /\ (DeviceResult /\ ExampleCatalog /\ OnlyQuery(q_watch)) =>
       response.items = <<devicesCatalog[2]>>

\* the query "watch" over a catalog that holds a record of another category
\* with "watch" in its title returns a record, and not that one
Wit_C5 ==
  /\ DeviceResult
  /\ OnlyQuery(q_watch)
  /\ response.items # <<>>
  /\ \E i \in 1..Len(devicesCatalog) :
       /\ includes(LowerOf(devicesCatalog[i], "title"), productName_watch)
       /\ ~Returned(devicesCatalog[i])

\* the brand filter of the answered call is "apple" in some letter case
BrandIsApple ==
  /\ "brand" \in DOMAIN request.arguments
  /\ toLowerCase(request.arguments.brand) = str_apple

\* an Apple record of category "Wearables" titled "Apple Watch Series 9"
IsAppleWatch(record) ==
  /\ record.title = t_Apple_Watch
  /\ "brand" \in DOMAIN record /\ record.brand = s_Apple
  /\ "product_category" \in DOMAIN record /\ record.product_category = s_Wearables

\* C6: with brand "apple" (any case) and no free-text query no record whose
\* category contains "wearables" is returned; with brand "Apple" and query
\* "watch" the Apple Watch Series 9 of category Wearables is returned.
Thm_C6_AppleHeuristic ==
  /\ (DeviceResult /\ BrandIsApple /\ ~Given(request.arguments, "query")) =>
       \A i \in 1..Len(response.items) :
         ~includes(LowerOf(response.items[i], "product_category"), cat_wearables)
  /\ (DeviceResult /\ BrandIsApple
        /\ FilterFields(request.arguments) = { "brand", "query" }
        /\ request.arguments.query = q_watch) =>
       \A i \in 1..Len(devicesCatalog) :
         IsAppleWatch(devicesCatalog[i]) => Returned(devicesCatalog[i])

\* both cases of the heuristic happen: brand "Apple" with query "watch" has
\* returned the Apple Watch of the catalog
Wit_C6 ==
  /\ DeviceResult
  /\ FilterFields(request.arguments) = { "brand", "query" }
  /\ request.arguments.brand = s_Apple
  /\ request.arguments.query = q_watch
  /\ \E i \in 1..Len(response.items) : IsAppleWatch(response.items[i])

\* brand "Apple" alone has dropped the Apple Watch of the catalog and kept
\* another Apple record
Wit_C6_NoQuery ==
  /\ DeviceResult
  /\ FilterFields(request.arguments) = { "brand" }
  /\ request.arguments.brand = s_Apple
  /\ response.items # <<>>
  /\ \E i \in 1..Len(devicesCatalog) :
       IsAppleWatch(devicesCatalog[i]) /\ ~Returned(devicesCatalog[i])

-----------------------------------------------------------------------------
\* C7 as claimed: any record titled "Samsung Galaxy S24 Ultra" matches the
\* query "galaxy ultra" and does not match the query "galaxy flip".
Orig_C7_MultiWord ==
  /\ ((DeviceResult \/ PlanResult) /\ OnlyQuery(q_galaxy_ultra)) =>
       \A i \in 1..Len(FilteredCatalog) :
         FilteredCatalog[i].title = t_Galaxy => Returned(FilteredCatalog[i])
  /\ ((DeviceResult \/ PlanResult) /\ OnlyQuery(q_galaxy_flip)) =>
       \A i \in 1..Len(FilteredCatalog) :
         FilteredCatalog[i].title = t_Galaxy => ~Returned(FilteredCatalog[i])

\* C7 amended: a record titled "Samsung Galaxy S24 Ultra" matches the query
\* "galaxy ultra" exactly when its productCategory contains "mobile phones"
\* (in any case), and never matches the query "galaxy flip".
Thm_C7_MultiWord ==
  /\ ((DeviceResult \/ PlanResult) /\ OnlyQuery(q_galaxy_ultra)) =>
       \A i \in 1..Len(FilteredCatalog) :
         FilteredCatalog[i].title = t_Galaxy =>
           (Returned(FilteredCatalog[i]) <=>
              includes(LowerOf(FilteredCatalog[i], "product_category"),
                       cat_mobile_phones))
  /\ ((DeviceResult \/ PlanResult) /\ OnlyQuery(q_galaxy_flip)) =>
       \A i \in 1..Len(FilteredCatalog) :
         FilteredCatalog[i].title = t_Galaxy => ~Returned(FilteredCatalog[i])

\* "galaxy ultra" has returned a Galaxy S24 Ultra of category Mobile Phones
Wit_C7 ==
  /\ DeviceResult
  /\ OnlyQuery(q_galaxy_ultra)
  /\ \E i \in 1..Len(response.items) :
       /\ response.items[i].title = t_Galaxy
       /\ includes(LowerOf(response.items[i], "product_category"), cat_mobile_phones)

-----------------------------------------------------------------------------
\* the title contains the whole lowercased query or every one of its words
TitleHasQuery(record, queryLower) ==
  \/ includes(LowerOf(record, "title"), queryLower)
  \/ \A w \in 1..Len(splitWhitespace(queryLower)) :
       includes(LowerOf(record, "title"), splitWhitespace(queryLower)[w])

\* the free-text query is the only filter property, and it is not empty
QueryAlone ==
  /\ (DeviceResult \/ PlanResult)
  /\ FilterFields(request.arguments) = { "query" }
  /\ request.arguments.query # <<>>

\* C8 as claimed: for a query containing a mapped product name, a record
\* matches exactly when its category contains an allowed category of that name
\* and its title contains the whole query or every word of it, for each
\* mapped name the query contains.
Orig_C8_ProductTypeBranch ==
  QueryAlone =>
    LET queryLower == toLowerCase(request.arguments.query)
    IN  \A k \in TokensIn(queryLower) :
          \A i \in 1..Len(FilteredCatalog) :
            Returned(FilteredCatalog[i]) <=>
              (CategoryAllowed(FilteredCatalog[i], k)
                 /\ TitleHasQuery(FilteredCatalog[i], queryLower))

\* C8 amended: for a query containing a mapped product name, a record matches
\* exactly when its category contains an allowed category of the first name
\* in mapping order that the query contains and its title contains the whole
\* lowercased query or every whitespace-split word of it; text in
\* description, brand or productCategory does not make it match.
Thm_C8_ProductTypeBranch ==
  QueryAlone =>
    LET queryLower == toLowerCase(request.arguments.query)
    IN  \A k \in TokensIn(queryLower) :
          (\A m \in TokensIn(queryLower) : k <= m) =>
            \A i \in 1..Len(FilteredCatalog) :
              Returned(FilteredCatalog[i]) <=>
                (CategoryAllowed(FilteredCatalog[i], k)
                   /\ TitleHasQuery(FilteredCatalog[i], queryLower))

\* "iphone" has dropped a Mobile Phones record that has the word in its
\* description only, and has returned another record
Wit_C8 ==
  /\ DeviceResult
  /\ OnlyQuery(q_iphone)
  /\ response.items # <<>>
  /\ \E i \in 1..Len(devicesCatalog) :
       /\ CategoryAllowed(devicesCatalog[i], 1)
       /\ includes(LowerOf(devicesCatalog[i], "description"), productName_iphone)
       /\ ~includes(LowerOf(devicesCatalog[i], "title"), productName_iphone)
       /\ ~Returned(devicesCatalog[i])

-----------------------------------------------------------------------------
\* the word is a substring of the lowercased title, description, brand or
\* productCategory of the record
WordInFields(record, word) ==
  \E field \in { "title", "description", "brand", "product_category" } :
    includes(LowerOf(record, field), word)

\* the non-empty ones of the lowercased title, description, brand and
\* productCategory, in this order, with one space between them
Haystack(record) ==
  LET fields == << LowerOf(record, "title"), LowerOf(record, "description"),
                   LowerOf(record, "brand"), LowerOf(record, "product_category") >>
      present == SelectSeq(fields, LAMBDA text : text # <<>>)
  IN  IF present = <<>> THEN <<>>
      ELSE IF Len(present) = 1 THEN present[1]
      ELSE IF Len(present) = 2 THEN present[1] \o <<" ">> \o present[2]
      ELSE IF Len(present) = 3
        THEN present[1] \o <<" ">> \o present[2] \o <<" ">> \o present[3]
      ELSE present[1] \o <<" ">> \o present[2] \o <<" ">> \o present[3]
             \o <<" ">> \o present[4]

\* the words joined by single spaces
RECURSIVE joinWords(_)
joinWords(words) ==
  IF words = <<>> THEN <<>>
  ELSE IF Len(words) = 1 THEN words[1]
  ELSE words[1] \o <<" ">> \o joinWords(Tail(words))

WordsReversed(query) == joinWords(Reverse(splitWhitespace(query)))

\* C9: for a query without a mapped product name a record matches exactly
\* when every whitespace-delimited word of the lowercased query is a substring
\* of the lowercased haystack of title, description, brand and
\* productCategory; the words in the opposite order give the same result.
Thm_C9_GeneralBranch ==
  (QueryAlone /\ TokensIn(toLowerCase(request.arguments.query)) = {}) =>
    LET queryLower == toLowerCase(request.arguments.query)
        words == splitWhitespace(queryLower)
        swapped == [query |-> WordsReversed(request.arguments.query)]
    IN  /\ \A i \in 1..Len(FilteredCatalog) :
             Returned(FilteredCatalog[i]) <=>
               \A w \in 1..Len(words) :
                 includes(Haystack(FilteredCatalog[i]), words[w])
        /\ DeviceResult => filterDevices(devicesCatalog, swapped) = response.items
        /\ PlanResult => filterPlans(plansCatalog, swapped) = response.items

\* a two-word query without a product name has returned a record that has the
\* two words in different fields, and has dropped a record that has only one
Wit_C9 ==
  /\ DeviceResult
  /\ QueryAlone
  /\ TokensIn(toLowerCase(request.arguments.query)) = {}
  /\ Len(splitWhitespace(request.arguments.query)) = 2
  /\ \E i \in 1..Len(response.items) :
       \A field \in { "title", "description", "brand", "product_category" } :
         \E w \in 1..2 :
           ~includes(LowerOf(response.items[i], field),
                     splitWhitespace(toLowerCase(request.arguments.query))[w])
  /\ \E i \in 1..Len(devicesCatalog) :
       /\ ~Returned(devicesCatalog[i])
       /\ \E w \in 1..2 :
            WordInFields(devicesCatalog[i],
                         splitWhitespace(toLowerCase(request.arguments.query))[w])

-----------------------------------------------------------------------------
\* the price bounds are the only filter properties, and one is present
PriceBoundsAlone ==
  /\ (DeviceResult \/ PlanResult)
  /\ FilterFields(request.arguments) # {}
  /\ FilterFields(request.arguments) \subseteq { "minPrice", "maxPrice" }

\* a record with sale price 50 and no list price
Sale50NoList(record) ==
  /\ "sale_price" \in DOMAIN record
  /\ "value" \in DOMAIN record.sale_price
  /\ record.sale_price.value = 50
  /\ "price" \notin DOMAIN record

\* C10: price bounds are inclusive and compare the effective price (sale
\* price if present, else list price): a record with effective price p passes
\* exactly when minPrice <= p (if given) and p <= maxPrice (if given); a
\* record with sale price 50 and no list price matches {minPrice: 50,
\* maxPrice: 50} and not {minPrice: 51}; minPrice > maxPrice matches nothing.
Thm_C10_PriceBounds ==
  PriceBoundsAlone =>
    LET a == request.arguments
    IN  /\ \A i \in 1..Len(FilteredCatalog) :
             EffectivePrice(FilteredCatalog[i]) # -1 =>
               (Returned(FilteredCatalog[i]) <=>
                  /\ "minPrice" \in DOMAIN a =>
                       a.minPrice <= EffectivePrice(FilteredCatalog[i])
                  /\ "maxPrice" \in DOMAIN a =>
                       EffectivePrice(FilteredCatalog[i]) <= a.maxPrice)
        /\ \A i \in 1..Len(FilteredCatalog) :
             Sale50NoList(FilteredCatalog[i]) =>
               /\ a = [minPrice |-> 50, maxPrice |-> 50] => Returned(FilteredCatalog[i])
               /\ a = [minPrice |-> 51] => ~Returned(FilteredCatalog[i])
        /\ ("minPrice" \in DOMAIN a /\ "maxPrice" \in DOMAIN a
              /\ a.minPrice > a.maxPrice) => response.items = <<>>

\* {minPrice: 50, maxPrice: 50} has returned a record with sale price 50 and
\* no list price and has dropped a record with another effective price
Wit_C10 ==
  /\ DeviceResult
  /\ request.arguments = [minPrice |-> 50, maxPrice |-> 50]
  /\ \E i \in 1..Len(response.items) : Sale50NoList(response.items[i])
  /\ \E i \in 1..Len(devicesCatalog) :
       /\ EffectivePrice(devicesCatalog[i]) # -1
       /\ ~Returned(devicesCatalog[i])

-----------------------------------------------------------------------------
\* the record has neither a sale price value nor a list price value
Unpriced(record) == EffectivePrice(record) = -1

\* C11: a record with neither a sale price value nor a list price value is
\* never returned by a device or plan query that has minPrice or maxPrice,
\* whatever the bounds; a query without a filter field still returns it.
Thm_C11_UnresolvablePrice ==
  /\ ((DeviceResult \/ PlanResult)
        /\ ("minPrice" \in DOMAIN request.arguments
              \/ "maxPrice" \in DOMAIN request.arguments)) =>
       \A i \in 1..Len(response.items) : ~Unpriced(response.items[i])
  /\ ((DeviceResult \/ PlanResult) /\ FilterFields(request.arguments) = {}) =>
       \A i \in 1..Len(FilteredCatalog) :
         Unpriced(FilteredCatalog[i]) => Returned(FilteredCatalog[i])

\* {minPrice: 0} has returned a record and dropped an unpriced one
Wit_C11 ==
  /\ DeviceResult
  /\ request.arguments = [minPrice |-> 0]
  /\ response.items # <<>>
  /\ \E i \in 1..Len(devicesCatalog) :
       Unpriced(devicesCatalog[i]) /\ ~Returned(devicesCatalog[i])

-----------------------------------------------------------------------------
\* the size filter is the only filter property of an answered device call
SizeAlone ==
  /\ DeviceResult
  /\ FilterFields(request.arguments) = { "size" }
  /\ request.arguments.size # <<>>

\* C12: a device whose stored size is "128GB" matches the size filters
\* "128 GB" and "128GB", in any letter case.
Thm_C12_SizeNormalization ==
  (SizeAlone /\ request.arguments.size \in { s_128_GB, s_128GB, s_128_gb }) =>
    \A i \in 1..Len(devicesCatalog) :
      ("size" \in DOMAIN devicesCatalog[i] /\ devicesCatalog[i].size = s_128GB)
        => Returned(devicesCatalog[i])

\* the filter "128 GB" has returned a device stored as "128GB"
Wit_C12 ==
  /\ SizeAlone
  /\ request.arguments.size = s_128_GB
  /\ \E i \in 1..Len(response.items) :
       "size" \in DOMAIN response.items[i] /\ response.items[i].size = s_128GB

\* C13: a size filter and a stored size that are equal after removing all
\* whitespace and case always match: "128 GB" matches stored "128GB" and
\* "128GB" matches stored "128 GB".
Orig_C13_SizeBothDirections ==
  SizeAlone =>
    \A i \in 1..Len(devicesCatalog) :
      ("size" \in DOMAIN devicesCatalog[i]
         /\ stripWhitespace(toLowerCase(devicesCatalog[i].size))
              = stripWhitespace(toLowerCase(request.arguments.size)))
        => Returned(devicesCatalog[i])

-----------------------------------------------------------------------------
\* the condition filter is the only filter property of an answered device call
ConditionAlone ==
  /\ DeviceResult
  /\ FilterFields(request.arguments) = { "condition" }
  /\ request.arguments.condition # <<>>

\* C14: the condition filters "refurbished" and "used", in any letter case,
\* return the same devices, and a device whose condition is "used" matches
\* the filter "refurbished".
Thm_C14_ConditionSynonym ==
  (ConditionAlone
     /\ toLowerCase(request.arguments.condition) \in { str_refurbished, str_used }) =>
    /\ response.items = filterDevices(devicesCatalog, [condition |-> s_used])
    /\ response.items = filterDevices(devicesCatalog, [condition |-> s_Refurbished])
    /\ \A i \in 1..Len(devicesCatalog) :
         LowerOf(devicesCatalog[i], "condition") = str_used
           => Returned(devicesCatalog[i])

\* the filter "Refurbished" has returned a used device and dropped another
Wit_C14 ==
  /\ ConditionAlone
  /\ request.arguments.condition = s_Refurbished
  /\ \E i \in 1..Len(response.items) :
       LowerOf(response.items[i], "condition") = str_used
  /\ Len(response.items) < Len(devicesCatalog)

-----------------------------------------------------------------------------
\* availability "in_stock" with an inventory quantity above 0, a missing
\* quantity counting as 0
StockState(device) ==
  /\ "availability" \in DOMAIN device
  /\ device.availability = "in_stock"
  /\ "inventory_quantity" \in DOMAIN device
  /\ device.inventory_quantity > 0

\* the arguments without property f
Without(arguments, f) == [g \in DOMAIN arguments \ { f } |-> arguments[g]]

\* C15: the filter "in_stock" returns exactly the otherwise-matching devices
\* whose stock state is true and "out_of_stock" exactly those whose stock
\* state is false, the stock state being availability "in_stock" with an
\* inventory quantity above 0 (a missing quantity counts as 0).
Thm_C15_Availability ==
  (DeviceResult /\ "availability" \in DOMAIN request.arguments) =>
    LET others == filterDevices(devicesCatalog,
                                Without(request.arguments, "availability"))
    IN  /\ request.arguments.availability = "in_stock" =>
             response.items = SelectSeq(others, LAMBDA d : StockState(d))
        /\ request.arguments.availability = "out_of_stock" =>
             response.items = SelectSeq(others, LAMBDA d : ~StockState(d))

\* "in_stock" has returned a device and dropped devices that are listed as
\* in_stock with quantity 0 and with no quantity
Wit_C15 ==
  /\ DeviceResult
  /\ request.arguments = [availability |-> "in_stock"]
  /\ response.items # <<>>
  /\ \E i, j \in 1..Len(devicesCatalog) :
       /\ devicesCatalog[i].availability = "in_stock"
       /\ "inventory_quantity" \in DOMAIN devicesCatalog[i]
       /\ devicesCatalog[i].inventory_quantity = 0
       /\ ~Returned(devicesCatalog[i])
       /\ devicesCatalog[j].availability = "in_stock"
       /\ "inventory_quantity" \notin DOMAIN devicesCatalog[j]
       /\ ~Returned(devicesCatalog[j])

-----------------------------------------------------------------------------
\* filterDevices (filterPlans) has returned, called on its own
DevicesFiltered == pc = "responded" /\ request.name = "filterDevices"

PlansFiltered == pc = "responded" /\ request.name = "filterPlans"

\* the property is present, not empty, and not one of the enumerated values
OutsideEnum(arguments, f, enum) ==
  /\ f \in DOMAIN arguments
  /\ arguments[f] # ""
  /\ arguments[f] \notin enum

-----------------------------------------------------------------------------
\* the handler has answered a call of one of the widgets' tools
ToolAnswered == pc = "responded" /\ request.name \in widgetIds

\* the enumerated properties the arguments carry hold enumerated values
EnumsValid(arguments) ==
  /\ "category" \in DOMAIN arguments =>
       arguments.category = "devices" \/ arguments.category = "plans"
  /\ "availability" \in DOMAIN arguments =>
       arguments.availability = "in_stock" \/ arguments.availability = "out_of_stock"
  /\ "billingTerm" \in DOMAIN arguments =>
       \/ arguments.billingTerm = "monthly"
       \/ arguments.billingTerm = "annual"
       \/ arguments.billingTerm = "multi-month"

Thm_C18_ExactEquality ==
  DeviceResult =>
    /\ Given(request.arguments, "brand") =>
         \A device \in InCatalog(devicesCatalog) :
           Returned(device) =>
             /\ "brand" \in DOMAIN device
             /\ toLowerCase(device.brand) = toLowerCase(request.arguments.brand)
    /\ Given(request.arguments, "productCategory") =>
         \A device \in InCatalog(devicesCatalog) :
           Returned(device) =>
             /\ "product_category" \in DOMAIN device
             /\ toLowerCase(device.product_category)
                  = toLowerCase(request.arguments.productCategory)
    /\ FilterFields(request.arguments) \in { {"brand"}, {"productCategory"} } =>
         \A device \in InCatalog(devicesCatalog) :
           ( /\ "brand" \in DOMAIN request.arguments =>
                  /\ "brand" \in DOMAIN device
                  /\ toLowerCase(device.brand) = toLowerCase(request.arguments.brand)
                  /\ ~ ( /\ toLowerCase(device.brand) = str_apple
                         /\ includes(LowerOf(device, "product_category"), cat_wearables) )
             /\ "productCategory" \in DOMAIN request.arguments =>
                  /\ "product_category" \in DOMAIN device
                  /\ toLowerCase(device.product_category)
                       = toLowerCase(request.arguments.productCategory) )
           => Returned(device)

\* the filter "Sam" is a proper substring of the stored brand "Samsung" and
\* returns nothing although a Samsung device is in the catalog
Wit_C18 ==
  /\ DeviceResult
  /\ request.arguments = [brand |-> s_Sam]
  /\ response.items = <<>>
  /\ \E device \in InCatalog(devicesCatalog) :
       "brand" \in DOMAIN device /\ device.brand = s_Samsung
  /\ \E device \in InCatalog(devicesCatalog) : "brand" \notin DOMAIN device

-----------------------------------------------------------------------------
\* the "6-month"-like forms of a lowercased title
SixMonthLike(title) ==
  \/ includes(title, <<"6","-","m","o","n","t","h">>)
  \/ includes(title, <<"6"," ","m","o","n","t","h">>)
  \/ includes(title, <<"6","m","o","n","t","h">>)

\* the billing term the title of a plan stands for
TermOfTitle(plan) ==
  LET title == LowerOf(plan, "title")
  IN  IF includes(title, str_annual) THEN "annual"
      ELSE IF SixMonthLike(title) THEN "multi-month"
      ELSE "monthly"

\* C19 as claimed: a plan's billing term is annual when its title contains
\* "annual", otherwise multi-month when the title contains a "6-month"-like
\* substring, otherwise monthly; a billingTerm filter returns exactly the
\* plans whose term equals the requested term.
Orig_C19_BillingTerm ==
  (PlanResult /\ FilterFields(request.arguments) = {"billingTerm"}) =>
    \A plan \in InCatalog(plansCatalog) :
      Returned(plan) <=> TermOfTitle(plan) = request.arguments.billingTerm

-----------------------------------------------------------------------------
\* the category a call asks for: its category argument when one is given,
\* otherwise the one tied to the called widget
SelectedCategory ==
  IF "category" \in DOMAIN request.arguments THEN request.arguments.category
  ELSE IF request.name = "visible-plans" THEN "plans" ELSE "devices"

\* the records of the catalog of a category that pass the filters
ItemsOfCategory(category, arguments) ==
  IF category = "plans" THEN filterPlans(plansCatalog, arguments)
                        ELSE filterDevices(devicesCatalog, arguments)

\* C20 as claimed: a tool call filters the catalog selected by its category
\* argument when one is given and otherwise the catalog tied to the called
\* widget; the category reported in the response is the category of the
\* catalog the returned items come from.
Orig_C20_CatalogSelection ==
  (pc = "responded" /\ response.kind = "result") =>
    /\ response.category = SelectedCategory
    /\ response.items = ItemsOfCategory(SelectedCategory, request.arguments)
    /\ response.items = ItemsOfCategory(response.category, request.arguments)

-----------------------------------------------------------------------------
\* C21 as claimed: the structured response echoes the filters that were
\* applied: every filter field the caller supplied (query, brand,
\* productCategory, minPrice, maxPrice, availability, color, size, condition,
\* billingTerm) appears in the response's filters with its value.
Orig_C21_EchoedFilters ==
  (pc = "responded" /\ response.kind = "result") =>
    \A f \in FilterFields(request.arguments) :
      /\ f \in DOMAIN response.filters
      /\ response.filters[f] = request.arguments[f]

-----------------------------------------------------------------------------
\* C22: in every tool-call response resultCount is the number of returned
\* items and totalCount the length of the catalog that was filtered, so
\* 0 <= resultCount <= totalCount.
Thm_C22_Counts ==
  (pc = "responded" /\ response.kind = "result") =>
    /\ response.resultCount = Len(response.items)
    /\ response.totalCount = Len(FilteredCatalog)
    /\ \A i \in 1..Len(response.items) :
         response.items[i] \in InCatalog(FilteredCatalog)
    /\ 0 <= response.resultCount
    /\ response.resultCount <= response.totalCount

\* a plan search returned some but not all plans while the devices catalog
\* has another length than the plans catalog
Wit_C22 ==
  /\ PlanResult
  /\ response.resultCount > 0
  /\ response.resultCount < response.totalCount
  /\ Len(devicesCatalog) < Len(plansCatalog)

-----------------------------------------------------------------------------
\* the query holds more than one mapped product name
SeveralTokens(queryLower) == Cardinality(TokensIn(queryLower)) > 1

\* the mapped name that stands first in mapping order among those in the query
FirstInOrder(queryLower) ==
  CHOOSE k \in TokensIn(queryLower) : \A m \in TokensIn(queryLower) : k <= m

\* C24: when a query contains more than one mapped product name, only the
\* name that comes first in mapping order (iphone, ipad, galaxy, pixel, watch,
\* iwatch) decides the category gate, wherever the names stand in the query:
\* a query with "watch" and "iphone" is gated on the iphone categories, and
\* "iwatch" never decides because such a query also contains "watch".
Thm_C24_FirstTokenDecides ==
  ((DeviceResult \/ PlanResult) /\ Given(request.arguments, "query")) =>
    LET queryLower == toLowerCase(request.arguments.query)
    IN  /\ 6 \in TokensIn(queryLower) =>
             (5 \in TokensIn(queryLower) /\ FirstInOrder(queryLower) # 6)
        /\ SeveralTokens(queryLower) =>
             /\ \A i \in 1..Len(response.items) :
                  CategoryAllowed(response.items[i], FirstInOrder(queryLower))
             /\ FilterFields(request.arguments) = { "query" } =>
                  \A record \in InCatalog(FilteredCatalog) :
                    ( /\ CategoryAllowed(record, FirstInOrder(queryLower))
                      /\ TitleHasQuery(record, queryLower) )
                    => Returned(record)
        /\ (includes(queryLower, productName_watch)
              /\ includes(queryLower, productName_iphone)) =>
             \A i \in 1..Len(response.items) :
               includes(LowerOf(response.items[i], "product_category"),
                        cat_mobile_phones)

\* "watch iphone", with watch standing first in the query, has returned a
\* record of an iphone category that no watch category allows
Wit_C24 ==
  /\ DeviceResult
  /\ OnlyQuery(q_watch_iphone)
  /\ \E i \in 1..Len(response.items) :
       /\ CategoryAllowed(response.items[i], 1)
       /\ ~CategoryAllowed(response.items[i], 5)

-----------------------------------------------------------------------------
\* the arguments cut down to the properties in keep
Only(arguments, keep) == [f \in DOMAIN arguments \cap keep |-> arguments[f]]

\* C30: the plan filter's result depends only on query, minPrice, maxPrice
\* and billingTerm: plan queries that agree on these four return the same
\* plans whatever their brand, productCategory, availability, color, size
\* and condition are; the device filter's result does not depend on
\* billingTerm.
Thm_C30_IgnoredFields ==
  /\ PlanResult =>
       response.items =
         filterPlans(plansCatalog,
                     Only(request.arguments,
                          { "query", "minPrice", "maxPrice", "billingTerm" }))
  /\ DeviceResult =>
       response.items =
         filterDevices(devicesCatalog, Without(request.arguments, "billingTerm"))

\* a plan search that carries a brand no plan has, together with a price
\* bound, has returned some plans and dropped others
Wit_C30 ==
  /\ PlanResult
  /\ DOMAIN request.arguments = { "brand", "maxPrice" }
  /\ response.items # <<>>
  /\ Len(response.items) < Len(plansCatalog)

-----------------------------------------------------------------------------
\* C23: no tool call changes the catalogs: after any sequence and any
\* interleaving of tool calls from any number of sessions both catalogs equal
\* their load-time value, and the result of each call depends only on that
\* call's tool name and arguments, not on earlier or concurrent calls.
Thm_C23_CatalogsImmutable ==
  /\ devicesCatalog = DevicePool
  /\ plansCatalog = PlanPool
  /\ \A n \in 1..Len(servers) :
       servers[n].sent # NoAnswer =>
         servers[n].sent.response =
           callTool(servers[n].sent.request.name,
                    servers[n].sent.request.arguments, DevicePool, PlanPool)
  /\ \A m \in 1..Len(servers), n \in 1..Len(servers) :
       servers[m].sent.request = servers[n].sent.request =>
         servers[m].sent.response = servers[n].sent.response

\* two sessions were sent an answer to the same call, one of them since
\* closed, and the answer carries items
Wit_C23 ==
  /\ Len(servers) = 2
  /\ servers[1].closed
  /\ ~servers[2].closed
  /\ servers[1].sent # NoAnswer
  /\ servers[1].sent.request = servers[2].sent.request
  /\ servers[2].sent.response.kind = "result"
  /\ servers[2].sent.response.items # <<>>

\* this step answers a POST to /mcp/messages
PostAnswered ==
  /\ http = NoExchange
  /\ http' # NoExchange
  /\ http'.path = postPath

\* C27: a POST to /mcp/messages is handed to a transport only when its
\* sessionId names a session in the registry, and then only to the transport
\* registered under that id; a missing sessionId is answered 400 and an
\* unregistered one 404, in both cases without changing the registry.
Thm_C27_PostRouting ==
  [][ PostAnswered =>
        /\ sessions' = sessions
        /\ transports' = transports
        /\ IF http'.sessionId = NoSessionId \/ http'.sessionId = ""
             THEN http'.status = 400 /\ http'.transport = 0
           ELSE IF http'.sessionId \notin DOMAIN sessions
             THEN http'.status = 404 /\ http'.transport = 0
           ELSE /\ http'.transport = sessions[http'.sessionId].transport
                /\ transports[http'.transport].sessionId = http'.sessionId
                /\ http'.status \notin { 400, 404 }
        /\ \A n \in 1..Len(servers) :
             n # http'.transport => servers'[n] = servers[n] ]_vars

\* with two sessions open, a POST naming the second was handed to the
\* second's transport and only its Server has answered
Wit_C27 ==
  /\ http # NoExchange
  /\ http.path = postPath
  /\ http.status = 202
  /\ http.transport = 2
  /\ Len(transports) = 2
  /\ transports[1].state = "open"
  /\ servers[1].sent = NoAnswer
  /\ servers[2].sent # NoAnswer

\* the transport is registered: created, and neither closed nor failed
Live(n) == transports[n].state \in { "connecting", "open" }

\* C28: under any interleaving of SSE connects, connect failures, transport
\* closes and POSTs, the registry holds an entry for a session id exactly
\* from the SSE GET that created its transport until that transport closes
\* or its connect fails; each SSE GET creates its own Server instance and
\* entry, and after a session's close or failed connect every POST carrying
\* its id is answered 404.
Thm_C28_SessionLifecycle ==
  /\ [] ( /\ Len(servers) = Len(transports)
          /\ DOMAIN sessions =
               { transports[n].sessionId : n \in { m \in 1..Len(transports) : Live(m) } }
          /\ \A n \in 1..Len(transports) :
               Live(n) =>
                 sessions[transports[n].sessionId] = [server |-> n, transport |-> n]
          /\ \A m \in 1..Len(transports), n \in 1..Len(transports) :
               transports[m].sessionId = transports[n].sessionId => m = n )
  /\ [][ Len(transports') # Len(transports) =>
           /\ Len(transports') = Len(transports) + 1
           /\ Len(servers') = Len(servers) + 1
           /\ DOMAIN sessions' = DOMAIN sessions \cup { transports'[Len(transports')].sessionId }
           /\ transports'[Len(transports')].sessionId \notin DOMAIN sessions ]_vars
  /\ [][ ( /\ PostAnswered
           /\ \E n \in 1..Len(transports) :
                /\ transports[n].sessionId = http'.sessionId
                /\ ~Live(n) )
         => (http'.status = 404 /\ http'.transport = 0) ]_vars

\* a POST carrying the id of a closed session was answered 404 while
\* another session is registered
Wit_C28 ==
  /\ http # NoExchange
  /\ http.path = postPath
  /\ http.status = 404
  /\ Len(transports) = 2
  /\ http.sessionId = transports[1].sessionId
  /\ transports[1].state = "closed"
  /\ transports[2].state = "open"
  /\ DOMAIN sessions = { transports[2].sessionId }

-----------------------------------------------------------------------------
\* a GET whose URL path starts with "/assets/" was answered
AssetAnswered ==
  /\ http # NoExchange
  /\ http.method = "GET"
  /\ startsWith(urlPathname(http.path), str_assets_prefix)

\* the path a request target resolves to under ROOT_DIR
ResolvedPath(target) == pathNormalize(ROOT_DIR \o <<"/">> \o urlPathname(target))

InsideAssets(path) == startsWith(path, ASSETS_DIR \o <<"/">>)

IsFile(path) == \E f \in files : f.path = path /\ f.kind = "file"

\* C26 as claimed: a GET under /assets/ is answered 200 only when the
\* resolved path is an existing file inside the assets directory; a path that
\* resolves outside it is answered 403, a path that does not name an existing
\* file 404, and no file outside the assets directory is served.
Orig_C26_Assets ==
  AssetAnswered =>
    LET resolved == ResolvedPath(http.path)
    IN  /\ http.status = 200 => (InsideAssets(resolved) /\ IsFile(resolved))
        /\ ~InsideAssets(resolved) /\ resolved # ASSETS_DIR \o <<"/">> =>
             http.status = 403
        /\ (InsideAssets(resolved) /\ ~IsFile(resolved)) => http.status = 404
        /\ http.served # <<>> => InsideAssets(http.served)

-----------------------------------------------------------------------------
\* the fixed cap of the mounted widget
CapOf(id) == IF id = "visible-devices" THEN VISIBLE_DEVICES_LIMIT ELSE MAX_RESULTS

\* the result the mounted widget holds
ResultOf(w, win) == IF w.id = "visible-devices" THEN win.toolOutput.items ELSE w.results

\* shown is made of the leading items of list, in their order
LeadingOf(shown, list) ==
  /\ Len(shown) <= Len(list)
  /\ shown = SubSeq(list, 1, Len(shown))

\* shown is the first cap items of list, or all of list when it is shorter
FirstOf(shown, list, cap) ==
  /\ LeadingOf(shown, list)
  /\ Len(shown) = IF Len(list) < cap THEN Len(list) ELSE cap

\* the term the plans widget reads from a plan
WidgetTerm(plan) ==
  orTerm(normalizePlanTerm(Get(plan, "title", <<>>)),
         normalizePlanTerm(Get(plan, "description", <<>>)))

\* C25 as claimed: the number of items a widget displays never exceeds its
\* cap (10 for visible-devices, 6 for filter-devices and filter-plans), and
\* the items displayed are the leading items of the result in their order.
Orig_C25_DisplayCap ==
  widget.id \in widgetNames =>
    /\ Len(displayed(widget, window)) <= CapOf(widget.id)
    /\ LeadingOf(displayed(widget, window), ResultOf(widget, window))

\* C25 amended: a widget never displays more items than its cap; what it
\* displays are the leading items, up to the cap, of the list it renders:
\* the result's items for visible-devices; for filter-devices the result, or
\* when the result is empty all devices if no filter is active and nothing
\* otherwise; for filter-plans the plans of the result whose term, as the
\* widget reads it from title or description, is the term its filters name
\* (every plan when they name none). The server returns every matching item.
Thm_C25_DisplayCap ==
  widget.id \in widgetNames =>
    LET shown == displayed(widget, window)
        named == effectiveTerm(widget.filters)
        sameTerm(plan) == WidgetTerm(plan) = named
    IN  /\ Len(shown) <= CapOf(widget.id)
        /\ widget.id = "visible-devices" =>
             FirstOf(shown, window.toolOutput.items, VISIBLE_DEVICES_LIMIT)
        /\ (widget.id = "filter-devices" /\ widget.results # <<>>) =>
             FirstOf(shown, widget.results, MAX_RESULTS)
        /\ (widget.id = "filter-devices" /\ widget.results = <<>>) =>
             IF areFiltersActive(widget.filters) THEN shown = <<>>
             ELSE FirstOf(shown, widget.allDevices, MAX_RESULTS)
        /\ (widget.id = "filter-plans" /\ named = "") =>
             FirstOf(shown, widget.results, MAX_RESULTS)
        /\ (widget.id = "filter-plans" /\ named # "") =>
             FirstOf(shown, SelectSeq(widget.results, sameTerm), MAX_RESULTS)
        /\ filterDevices(devicesOf(VISIBLE_DEVICES_LIMIT + 1), [query |-> q_iphone])
             = devicesOf(VISIBLE_DEVICES_LIMIT + 1)

\* the plans widget holds a result longer than its cap, displays as many
\* plans as the cap, and its filters name no term
Wit_C25 ==
  /\ widget.id = "filter-plans"
  /\ Len(widget.results) > MAX_RESULTS
  /\ Len(displayed(widget, window)) = MAX_RESULTS
  /\ messageResults.array
  /\ effectiveTerm(widget.filters) = ""

\* C29 as claimed: in the filter widgets, once a message event has delivered
\* a results array, the displayed result list is replaced only by a later
\* message event: a tick of the polling timer never overwrites it.
Orig_C29_TimerNeverOverwrites ==
  (widget.id \in { "filter-devices", "filter-plans" } /\ messageResults.array) =>
    widget.results = messageResults.items

====
